---- MODULE Spec2Model ----
(***************************************************************************)
(* Personal TODO service (bandhu-workshop/db_workshop).                    *)
(*                                                                         *)
(* Two iterations of the service are modelled:                             *)
(*   - workshop/00_personal_todo (package app): CRUD with soft delete,     *)
(*     restore and hard delete over the table "todos" (here app_todos);    *)
(*   - workshop/00_personal_TODO: CRUD with idempotent create over the     *)
(*     tables "todos" and "todo_idempotency_keys".                         *)
(* For each iteration the data-access functions are modelled first and the *)
(* HTTP endpoints that call them after; the pagination arithmetic of the   *)
(* list endpoint is also modelled on its own.                              *)
(*                                                                         *)
(* A Python value that may be None is an option: None is <<>> and a value  *)
(* x is <<x>>.  A table is the set of its rows.                            *)
(***************************************************************************)
EXTENDS Integers, Sequences, FiniteSets, TLC

\* ------------------------------------------------------------------ bounds
MaxId == 2
MaxTime == 1
NReqs == 2
MaxPage == 3
MaxTotal == 25

\* ---------------------------------------------------------------- constants
\* limit: int = Query(default=10, ge=1, le=20)
MaxLimit == 20

\* ----------------------------------------------------------------- options
None == <<>>
Some(x) == <<x>>

OptRows(opt) == IF opt = None THEN {} ELSE {opt[1]}

Ids == 1..MaxId

\* ----------------------------------------------------------- request bodies
\* TodoCreate: title: str, description: str | None = None,
\* is_completed: bool = False.  (The inputs of the soft-delete iteration.)
TodoCreate ==
    [title : {"a"}, description : {None}, is_completed : BOOLEAN]

\* schemas.TodoUpdate: every field optional.  A field of the body is None when
\* the request did not set it (model_fields_set), and Some(v) when it set it to
\* v, where v is itself an option (an explicit JSON null is Some(None)).
TodoUpdate ==
    [title : {None, Some(None), Some(Some("b"))},
     description : {None},
     is_completed : {None, Some(Some(TRUE))}]

\* todo.model_dump(exclude_unset=True).items() applied with setattr.
setattr_all(row, body) ==
    [row EXCEPT
        !.title = IF body.title = None THEN @ ELSE body.title[1],
        !.description = IF body.description = None THEN @ ELSE body.description[1],
        !.is_completed = IF body.is_completed = None THEN @ ELSE body.is_completed[1]]

\* Column(String(255), nullable=False): the flush of a row whose title is NULL
\* raises IntegrityError.
title_not_null(row) == row.title # None

\* session.get(Todo, todo_id) / query.filter(Todo.id == todo_id).first()
session_get(T, todo_id) ==
    IF \E t \in T : t.id = todo_id
    THEN Some(CHOOSE t \in T : t.id = todo_id)
    ELSE None

(***************************************************************************)
(* workshop/00_personal_todo: soft delete, restore, hard delete.           *)
(***************************************************************************)
VARIABLES
    app_todos,      \* table todos of the soft-delete iteration
    app_id_seq,     \* next value of the table's id sequence
    app_now,        \* the clock: func.now() and datetime.now(timezone.utc)
    app_ret,        \* what the last data-access call returned
    app_orig,       \* history: a soft-deleted item's row before its soft delete
    app_purged      \* history: the ids that were hard-deleted

app_vars == <<app_todos, app_id_seq, app_now, app_ret, app_orig, app_purged>>

(***************************************************************************)
(* workshop/00_personal_TODO: idempotent create.                           *)
(***************************************************************************)
VARIABLES
    todos,                  \* table todos
    todo_idempotency_keys,  \* table todo_idempotency_keys
    idem_now,               \* the clock: func.now()
    created_with,           \* history: the idempotency key a row was created with
    ret,                    \* sequential runs: what the last call returned
    req                     \* concurrent runs: the create requests in flight

idem_vars == <<todos, todo_idempotency_keys, idem_now, created_with, ret, req>>

(***************************************************************************)
(* The HTTP layer of both iterations (todo_api.py, api/v1/endpoints).      *)
(***************************************************************************)
VARIABLES
    http,           \* the last HTTP response
    first_response, \* history: the first response to a create with each key
    pagination      \* the pagination metadata last computed

api_vars == <<http, first_response, pagination>>

vars == <<app_vars, idem_vars, api_vars>>

\* The concurrent create requests, and a request that has not begun.
\* todo_id: the id of the row the request inserted (0: none);
\* ret_id: the id of the item it returned (0: none); conflict: its insert of
\* the key hit the unique constraint.
Reqs == 1..NReqs
NoReq == [pc |-> "idle", key |-> None, todo |-> None, todo_id |-> 0,
          status |-> "none", is_new |-> FALSE, ret_id |-> 0,
          conflict |-> FALSE]

\* The deletion timestamp of a new row (the column's declaration is not part of
\* the sources; the data-access code reads it as NULL for an active row).
deleted_at_default == None

create_todo(T, seq, todo, now) ==
    LET todo_item == [id |-> seq,
                      title |-> Some(todo.title),
                      description |-> todo.description,
                      is_completed |-> Some(todo.is_completed),
                      created_at |-> now,
                      deleted_at |-> deleted_at_default]
    IN  [todos |-> T \cup {todo_item}, ret |-> Some(todo_item)]

list_todos(T, include_deleted) ==
    IF ~include_deleted THEN {t \in T : t.deleted_at = None} ELSE T

get_todo(T, todo_id) ==
    session_get({t \in T : t.deleted_at = None}, todo_id)

get_all_completed_todo(T) ==
    {t \in T : t.deleted_at = None /\ t.is_completed = Some(TRUE)}

\* update_todo without its test of deleted_at.
update_todo_no_active_check(T, todo_id, body) ==
    LET todo_item == session_get(T, todo_id)
    IN  IF todo_item = None
        THEN [todos |-> T, ret |-> None, raised |-> FALSE]
        ELSE LET new == setattr_all(todo_item[1], body)
             IN  IF ~title_not_null(new)
                 THEN [todos |-> T, ret |-> None, raised |-> TRUE]
                 ELSE [todos |-> (T \ {todo_item[1]}) \cup {new},
                       ret |-> Some(new), raised |-> FALSE]

\* raised: session.commit() raised IntegrityError (a NULL title) and nothing
\* was written.
update_todo(T, todo_id, body) ==
    LET todo_item == session_get(T, todo_id)
    IN  IF todo_item = None \/ todo_item[1].deleted_at # None
        THEN [todos |-> T, ret |-> None, raised |-> FALSE]
        ELSE LET new == setattr_all(todo_item[1], body)
             IN  IF ~title_not_null(new)
                 THEN [todos |-> T, ret |-> None, raised |-> TRUE]
                 ELSE [todos |-> (T \ {todo_item[1]}) \cup {new},
                       ret |-> Some(new), raised |-> FALSE]

\* delete_todo marking the row deleted instead of removing it.
delete_todo_marks_deleted(T, todo_id) ==
    LET todo_item == session_get(T, todo_id)
    IN  IF todo_item = None
        THEN [todos |-> T, ret |-> FALSE]
        ELSE [todos |-> (T \ {todo_item[1]})
                        \cup {[todo_item[1] EXCEPT !.deleted_at = Some(0)]},
              ret |-> TRUE]

delete_todo(T, todo_id) ==
    LET todo_item == session_get(T, todo_id)
    IN  IF todo_item = None
        THEN [todos |-> T, ret |-> FALSE]
        ELSE [todos |-> T \ {todo_item[1]}, ret |-> TRUE]

\* soft_delete_todo without its filter on deleted_at.
soft_delete_todo_any(T, todo_id, now) ==
    LET todo_item == session_get(T, todo_id)
    IN  IF todo_item = None
        THEN [todos |-> T, ret |-> FALSE]
        ELSE [todos |-> (T \ {todo_item[1]})
                        \cup {[todo_item[1] EXCEPT !.deleted_at = Some(now)]},
              ret |-> TRUE]

soft_delete_todo(T, todo_id, now) ==
    LET todo_item == session_get({t \in T : t.deleted_at = None}, todo_id)
    IN  IF todo_item = None
        THEN [todos |-> T, ret |-> FALSE]
        ELSE [todos |-> (T \ {todo_item[1]})
                        \cup {[todo_item[1] EXCEPT !.deleted_at = Some(now)]},
              ret |-> TRUE]

\* restore_todo that also resets the completion flag.
restore_todo_resets_flag(T, todo_id) ==
    LET todo_item == session_get({t \in T : t.deleted_at # None}, todo_id)
    IN  IF todo_item = None
        THEN [todos |-> T, ret |-> None]
        ELSE LET restored == [todo_item[1] EXCEPT !.deleted_at = None,
                                                  !.is_completed = Some(FALSE)]
             IN  [todos |-> (T \ {todo_item[1]}) \cup {restored},
                  ret |-> Some(restored)]

restore_todo(T, todo_id) ==
    LET todo_item == session_get({t \in T : t.deleted_at # None}, todo_id)
    IN  IF todo_item = None
        THEN [todos |-> T, ret |-> None]
        ELSE LET restored == [todo_item[1] EXCEPT !.deleted_at = None]
             IN  [todos |-> (T \ {todo_item[1]}) \cup {restored},
                  ret |-> Some(restored)]

\* ------------------------------------------------------------ the handlers
AppInit ==
    /\ app_todos = {}
    /\ app_id_seq = 1
    /\ app_now = 0
    /\ app_ret = [op |-> "none", id |-> 0, status |-> "ok", rows |-> {}]
    /\ app_orig = [i \in Ids |-> None]
    /\ app_purged = {}

AppReturn(op, id, status, rows) ==
    app_ret' = [op |-> op, id |-> id, status |-> status, rows |-> rows]

AppCreate(todo) ==
    /\ UNCHANGED idem_vars
    /\ app_id_seq <= MaxId
    /\ LET r == create_todo(app_todos, app_id_seq, todo, app_now)
       IN  /\ app_todos' = r.todos
           /\ AppReturn("create", r.ret[1].id, "ok", OptRows(r.ret))
    /\ app_id_seq' = app_id_seq + 1
    /\ UNCHANGED <<app_now, app_orig, app_purged>>

AppList(include_deleted) ==
    /\ UNCHANGED idem_vars
    /\ AppReturn(IF include_deleted THEN "list_include_deleted" ELSE "list", 0, "ok",
                 list_todos(app_todos, include_deleted))
    /\ UNCHANGED <<app_todos, app_id_seq, app_now, app_orig, app_purged>>

AppCompleted ==
    /\ UNCHANGED idem_vars
    /\ AppReturn("completed", 0, "ok", get_all_completed_todo(app_todos))
    /\ UNCHANGED <<app_todos, app_id_seq, app_now, app_orig, app_purged>>

AppGet(id) ==
    /\ UNCHANGED idem_vars
    /\ LET r == get_todo(app_todos, id)
       IN  AppReturn("get", id, IF r = None THEN "not_found" ELSE "ok", OptRows(r))
    /\ UNCHANGED <<app_todos, app_id_seq, app_now, app_orig, app_purged>>

AppUpdate(id, body) ==
    /\ UNCHANGED idem_vars
    /\ LET r == update_todo(app_todos, id, body)
       IN  /\ app_todos' = r.todos
           /\ AppReturn("update", id,
                        IF r.raised THEN "raised"
                        ELSE IF r.ret = None THEN "not_found" ELSE "ok",
                        OptRows(r.ret))
    /\ UNCHANGED <<app_id_seq, app_now, app_orig, app_purged>>

AppSoftDelete(id) ==
    /\ UNCHANGED idem_vars
    /\ LET r == soft_delete_todo(app_todos, id, app_now)
       IN  /\ app_todos' = r.todos
           /\ AppReturn("soft_delete", id, IF r.ret THEN "ok" ELSE "not_found", {})
           /\ app_orig' = IF r.ret
                          THEN [app_orig EXCEPT ![id] = get_todo(app_todos, id)]
                          ELSE app_orig
    /\ UNCHANGED <<app_id_seq, app_now, app_purged>>

AppRestore(id) ==
    /\ UNCHANGED idem_vars
    /\ LET r == restore_todo(app_todos, id)
       IN  /\ app_todos' = r.todos
           /\ AppReturn("restore", id, IF r.ret = None THEN "not_found" ELSE "ok",
                        OptRows(r.ret))
           /\ app_orig' = IF r.ret = None THEN app_orig
                          ELSE [app_orig EXCEPT ![id] = None]
    /\ UNCHANGED <<app_id_seq, app_now, app_purged>>

AppHardDelete(id) ==
    /\ UNCHANGED idem_vars
    /\ LET r == delete_todo(app_todos, id)
       IN  /\ app_todos' = r.todos
           /\ AppReturn("hard_delete", id, IF r.ret THEN "ok" ELSE "not_found", {})
           /\ app_purged' = IF r.ret THEN app_purged \cup {id} ELSE app_purged
    /\ UNCHANGED <<app_id_seq, app_now, app_orig>>

AppTick ==
    /\ UNCHANGED idem_vars
    /\ app_now < MaxTime
    /\ app_now' = app_now + 1
    /\ UNCHANGED <<app_todos, app_id_seq, app_ret, app_orig, app_purged>>

AppNext ==
    \/ \E todo \in TodoCreate : AppCreate(todo) /\ UNCHANGED api_vars
    \/ \E b \in BOOLEAN : AppList(b) /\ UNCHANGED api_vars
    \/ AppCompleted /\ UNCHANGED api_vars
    \/ \E id \in Ids : AppGet(id) /\ UNCHANGED api_vars
    \/ \E id \in Ids, body \in TodoUpdate : AppUpdate(id, body) /\ UNCHANGED api_vars
    \/ \E id \in Ids : AppSoftDelete(id) /\ UNCHANGED api_vars
    \/ \E id \in Ids : AppRestore(id) /\ UNCHANGED api_vars
    \/ \E id \in Ids : AppHardDelete(id) /\ UNCHANGED api_vars
    \/ AppTick /\ UNCHANGED api_vars


\* ---------------------------------------------------------- request inputs
IdemTodoCreate ==
    [title : {"a", "b"}, description : {None}, is_completed : {FALSE}]

IdemTodoUpdate ==
    [title : {None, Some(None), Some(Some("a"))},
     description : {None},
     is_completed : {None, Some(Some(TRUE))}]

\* The Idempotency-Key header: absent, empty, or a key.
Keys == {"k1", "k2"}
KeyHeaders == {None, Some("")} \cup {Some(k) : k \in Keys}

\* `if idempotency_key:` - None and the empty string are false.
truthy(idempotency_key) == idempotency_key # None /\ idempotency_key[1] # ""

\* Column(Integer, primary_key=True) on SQLite (config.database_url): a new row
\* gets the largest id of the table plus one, so the id of a deleted last row
\* is handed out again.
next_rowid(T) ==
    IF T = {} THEN 1
    ELSE (CHOOSE i \in {t.id : t \in T} : \A t \in T : t.id <= i) + 1

\* get_todo_by_idempotency_key that never finds a record.
get_todo_by_idempotency_key_miss(T, K, idempotency_key) == None

get_todo_by_idempotency_key(T, K, idempotency_key) ==
    LET record == {r \in K : r.idempotency_key = idempotency_key}
    IN  IF record # {}
        THEN session_get(T, (CHOOSE r \in record : TRUE).todo_id)
        ELSE None

\* Step 2 of create_todo_with_idempotency: Todo(**todo.model_dump()), add,
\* commit, refresh.
create_new_todo(T, todo, t) ==
    LET todo_item == [id |-> next_rowid(T),
                      title |-> Some(todo.title),
                      description |-> todo.description,
                      is_completed |-> Some(todo.is_completed),
                      created_at |-> t]
    IN  [todos |-> T \cup {todo_item}, ret |-> todo_item]

\* Step 3: add the TodoIdempotency row and commit.  idempotency_key is
\* unique=True: the commit of a second row with the key raises IntegrityError.
\* (The row's created_at is left out: nothing reads it.)
store_idempotency_key(K, idempotency_key, todo_id) ==
    IF \E r \in K : r.idempotency_key = idempotency_key
    THEN [keys |-> K, raised |-> TRUE]
    ELSE [keys |-> K \cup {[id |-> next_rowid(K),
                            idempotency_key |-> idempotency_key,
                            todo_id |-> todo_id]},
          raised |-> FALSE]

\* The whole call, run without interleaving.  raised: the exception of step 3
\* leaves the function; the row of step 2 is already committed.
create_todo_with_idempotency(T, K, todo, idempotency_key, t) ==
    LET cached_todo ==
            IF truthy(idempotency_key)
            THEN get_todo_by_idempotency_key(T, K, idempotency_key[1])
            ELSE None
    IN  IF cached_todo # None
        THEN [todos |-> T, keys |-> K, ret |-> cached_todo,
              is_new |-> FALSE, raised |-> FALSE]
        ELSE LET created == create_new_todo(T, todo, t)
             IN  IF ~truthy(idempotency_key)
                 THEN [todos |-> created.todos, keys |-> K,
                       ret |-> Some(created.ret),
                       is_new |-> TRUE, raised |-> FALSE]
                 ELSE LET stored == store_idempotency_key(
                                        K, idempotency_key[1], created.ret.id)
                      IN  IF stored.raised
                          THEN [todos |-> created.todos, keys |-> K,
                                ret |-> None, is_new |-> TRUE, raised |-> TRUE]
                          ELSE [todos |-> created.todos, keys |-> stored.keys,
                                ret |-> Some(created.ret),
                                is_new |-> TRUE, raised |-> FALSE]

idem_get_todo(T, todo_id) == session_get(T, todo_id)

idem_update_todo(T, todo_id, body) ==
    LET todo_item == session_get(T, todo_id)
    IN  IF todo_item = None
        THEN [todos |-> T, ret |-> None, raised |-> FALSE]
        ELSE LET new == setattr_all(todo_item[1], body)
             IN  IF ~title_not_null(new)
                 THEN [todos |-> T, ret |-> None, raised |-> TRUE]
                 ELSE [todos |-> (T \ {todo_item[1]}) \cup {new},
                       ret |-> Some(new), raised |-> FALSE]

\* todo_idempotency_keys.todo_id is a ForeignKey, which SQLite does not
\* enforce unless PRAGMA foreign_keys is set (database.py does not set it):
\* the row is deleted and its idempotency record stays.
idem_delete_todo(T, todo_id) ==
    LET todo_item == session_get(T, todo_id)
    IN  IF todo_item = None
        THEN [todos |-> T, ret |-> FALSE]
        ELSE [todos |-> T \ {todo_item[1]}, ret |-> TRUE]

\* ------------------------------------------------------------ the handlers
IdemInit ==
    /\ todos = {}
    /\ todo_idempotency_keys = {}
    /\ idem_now = 0
    /\ created_with = [i \in Ids |-> None]
    /\ ret = [op |-> "none", key |-> None, todo |-> None, id |-> 0,
              status |-> "ok", is_new |-> FALSE, rows |-> {}]
    /\ req = [r \in Reqs |-> NoReq]

Return(op, key, todo, id, status, is_new, rows) ==
    ret' = [op |-> op, key |-> key, todo |-> todo, id |-> id,
            status |-> status, is_new |-> is_new, rows |-> rows]

\* History: the key each row of T2 that is not in T1 was created with.
CreatedWith(T1, T2, idempotency_key) ==
    [i \in Ids |->
        IF \E t \in T2 : t.id = i
        THEN IF \E t \in T1 : t.id = i THEN created_with[i]
             ELSE IF truthy(idempotency_key) THEN idempotency_key ELSE None
        ELSE None]

\* POST /todos/ run to its end before any other request.
SeqCreate(todo, key) ==
    /\ UNCHANGED <<app_vars, req>>
    /\ LET r == create_todo_with_idempotency(
                    todos, todo_idempotency_keys, todo, key, idem_now)
       IN  /\ \A t \in r.todos : t.id <= MaxId
           /\ todos' = r.todos
           /\ todo_idempotency_keys' = r.keys
           /\ created_with' = CreatedWith(todos, r.todos, key)
           /\ Return("create", key, Some(todo),
                     IF r.ret = None THEN 0 ELSE r.ret[1].id,
                     IF r.raised THEN "raised" ELSE "ok",
                     r.is_new, OptRows(r.ret))
    /\ UNCHANGED idem_now

SeqGet(id) ==
    /\ UNCHANGED <<app_vars, req>>
    /\ LET r == idem_get_todo(todos, id)
       IN  Return("get", None, None, id,
                  IF r = None THEN "not_found" ELSE "ok", FALSE, OptRows(r))
    /\ UNCHANGED <<todos, todo_idempotency_keys, idem_now, created_with>>

SeqUpdate(id, body) ==
    /\ UNCHANGED <<app_vars, req>>
    /\ LET r == idem_update_todo(todos, id, body)
       IN  /\ todos' = r.todos
           /\ Return("update", None, None, id,
                     IF r.raised THEN "raised"
                     ELSE IF r.ret = None THEN "not_found" ELSE "ok",
                     FALSE, OptRows(r.ret))
    /\ UNCHANGED <<todo_idempotency_keys, idem_now, created_with>>

SeqDelete(id) ==
    /\ UNCHANGED <<app_vars, req>>
    /\ LET r == idem_delete_todo(todos, id)
       IN  /\ todos' = r.todos
           /\ created_with' = CreatedWith(todos, r.todos, None)
           /\ Return("delete", None, None, id,
                     IF r.ret THEN "ok" ELSE "not_found", FALSE, {})
    /\ UNCHANGED <<todo_idempotency_keys, idem_now>>

SeqTick ==
    /\ UNCHANGED <<app_vars, req>>
    /\ idem_now < MaxTime
    /\ idem_now' = idem_now + 1
    /\ UNCHANGED <<todos, todo_idempotency_keys, created_with, ret>>

SeqNext ==
    \/ \E todo \in IdemTodoCreate, key \in KeyHeaders : SeqCreate(todo, key) /\ UNCHANGED api_vars
    \/ \E id \in Ids : SeqGet(id) /\ UNCHANGED api_vars
    \/ \E id \in Ids, body \in IdemTodoUpdate : SeqUpdate(id, body) /\ UNCHANGED api_vars
    \/ \E id \in Ids : SeqDelete(id) /\ UNCHANGED api_vars
    \/ SeqTick /\ UNCHANGED api_vars

(***************************************************************************)
(* Concurrent create requests.  Each request has its own session; a step   *)
(* is one committed round trip to the database: the key lookup (lines      *)
(* 86-89: its two SELECTs are taken as one step), the insert and commit of *)
(* the item (92-95), the insert and commit of the key (98-104).            *)
(***************************************************************************)
ReqLookup(r) ==
    /\ UNCHANGED <<app_vars, ret>>
    /\ req[r].pc = "lookup"
    /\ LET cached_todo ==
               IF truthy(req[r].key)
               THEN get_todo_by_idempotency_key(
                        todos, todo_idempotency_keys, req[r].key[1])
               ELSE None
       IN  req' = [req EXCEPT ![r] =
                    IF cached_todo # None
                    THEN [@ EXCEPT !.pc = "done", !.status = "ok",
                                   !.ret_id = cached_todo[1].id]
                    ELSE [@ EXCEPT !.pc = "create"]]
    /\ UNCHANGED <<todos, todo_idempotency_keys, idem_now, created_with>>

ReqBegin(r, todo, key) ==
    /\ UNCHANGED <<app_vars, ret>>
    /\ req[r].pc = "idle"
    /\ req' = [req EXCEPT ![r] = [NoReq EXCEPT !.pc = "lookup", !.key = key,
                                               !.todo = Some(todo)]]
    /\ UNCHANGED <<todos, todo_idempotency_keys, idem_now, created_with>>

ReqCreateTodo(r) ==
    /\ UNCHANGED <<app_vars, ret>>
    /\ req[r].pc = "create"
    /\ LET created == create_new_todo(todos, req[r].todo[1], idem_now)
       IN  /\ created.ret.id <= MaxId
           /\ todos' = created.todos
           /\ created_with' = CreatedWith(todos, created.todos, req[r].key)
           /\ req' = [req EXCEPT ![r] =
                        IF truthy(req[r].key)
                        THEN [@ EXCEPT !.pc = "store_key",
                                       !.todo_id = created.ret.id]
                        ELSE [@ EXCEPT !.pc = "done", !.status = "ok",
                                       !.is_new = TRUE,
                                       !.todo_id = created.ret.id,
                                       !.ret_id = created.ret.id]]
    /\ UNCHANGED <<todo_idempotency_keys, idem_now>>

ReqStoreKey(r) ==
    /\ UNCHANGED <<app_vars, ret>>
    /\ req[r].pc = "store_key"
    /\ LET stored == store_idempotency_key(
                         todo_idempotency_keys, req[r].key[1], req[r].todo_id)
       IN  /\ todo_idempotency_keys' = stored.keys
           /\ req' = [req EXCEPT ![r] =
                        IF stored.raised
                        THEN [@ EXCEPT !.pc = "done", !.status = "raised",
                                       !.conflict = TRUE]
                        ELSE [@ EXCEPT !.pc = "done", !.status = "ok",
                                       !.is_new = TRUE,
                                       !.ret_id = req[r].todo_id]]
    /\ UNCHANGED <<todos, idem_now, created_with>>

\* DELETE /todos/{id} of another client, in one step.
ConcDelete(id) ==
    /\ UNCHANGED <<app_vars, ret, req>>
    /\ LET r == idem_delete_todo(todos, id)
       IN  /\ r.ret
           /\ todos' = r.todos
           /\ created_with' = CreatedWith(todos, r.todos, None)
    /\ UNCHANGED <<todo_idempotency_keys, idem_now>>

ConcNext ==
    \/ \E r \in Reqs, todo \in IdemTodoCreate, key \in KeyHeaders :
            ReqBegin(r, todo, key) /\ UNCHANGED api_vars
    \/ \E r \in Reqs : ReqLookup(r) /\ UNCHANGED api_vars
    \/ \E r \in Reqs : ReqCreateTodo(r) /\ UNCHANGED api_vars
    \/ \E r \in Reqs : ReqStoreKey(r) /\ UNCHANGED api_vars
    \/ \E id \in Ids : ConcDelete(id) /\ UNCHANGED api_vars

(***************************************************************************)
(* The HTTP endpoints of the idempotency iteration (todo_api.py), one      *)
(* request at a time.                                                      *)
(***************************************************************************)
\* The response the client gets.  result is what the data-access call
\* signalled to the handler: "ok", "absent" (None or False) or "raised".
Response(endpoint, todo_id, result, status_code, body) ==
    [endpoint |-> endpoint, todo_id |-> todo_id, result |-> result,
     status_code |-> status_code, body |-> body]

\* response_model=TodoResponse: the fields of the item the body carries
\* (created_at as the row holds it).
TodoResponse(todo_item) ==
    [id |-> todo_item.id,
     title |-> todo_item.title,
     description |-> todo_item.description,
     is_completed |-> todo_item.is_completed,
     created_at |-> todo_item.created_at]

\* TodoResponse declares title: str and is_completed: bool; a row whose column
\* is NULL fails the validation of the response, which is a 500.
response_validates(todo_item) ==
    todo_item.title # None /\ todo_item.is_completed # None

\* A handler that returns the item: the declared status code and the item, or
\* 500 when the item does not validate.
item_response(endpoint, todo_item, status_code) ==
    IF response_validates(todo_item)
    THEN Response(endpoint, todo_item.id, "ok", status_code,
                  Some(TodoResponse(todo_item)))
    ELSE Response(endpoint, todo_item.id, "ok", 500, None)

\* POST /todos/ (status_code=201).  An exception of the data-access call
\* leaves the handler: 500.
idem_create_todo_endpoint(T, K, todo, idempotency_key, t) ==
    LET r == create_todo_with_idempotency(T, K, todo, idempotency_key, t)
    IN  IF r.raised
        THEN Response("create", 0, "raised", 500, None)
        ELSE item_response("create", r.ret[1], 201)

\* GET /todos/{todo_id}
idem_get_todo_endpoint(T, todo_id) ==
    LET todo_item == idem_get_todo(T, todo_id)
    IN  IF todo_item = None
        THEN Response("get", todo_id, "absent", 404, None)
        ELSE item_response("get", todo_item[1], 200)

\* PUT /todos/{todo_id}
idem_update_todo_endpoint(T, todo_id, body) ==
    LET r == idem_update_todo(T, todo_id, body)
    IN  IF r.raised
        THEN Response("update", todo_id, "raised", 500, None)
        ELSE IF r.ret = None
             THEN Response("update", todo_id, "absent", 404, None)
             ELSE item_response("update", r.ret[1], 200)

\* DELETE /todos/{todo_id} (status_code=204): the handler calls delete_todo,
\* drops what it returns and returns None.
idem_delete_todo_endpoint(T, todo_id) ==
    LET result == idem_delete_todo(T, todo_id)
    IN  Response("delete", todo_id, IF result.ret THEN "ok" ELSE "absent",
                 204, None)

\* The bodies the request schemas accept: TodoCreate.title is any str, the
\* empty one included; every field of TodoUpdate may be left out, null or set.
AcceptedTodoCreate ==
    [title : {"", "a"}, description : {None}, is_completed : {FALSE}]

AcceptedTodoUpdate ==
    [title : {None, Some(None), Some(Some("b"))},
     description : {None},
     is_completed : {None, Some(None), Some(Some(TRUE))}]

\* History: the first response to a create request that carried the key.
FirstResponse(idempotency_key, response) ==
    IF truthy(idempotency_key) /\ first_response[idempotency_key[1]] = None
    THEN [first_response EXCEPT ![idempotency_key[1]] = Some(response)]
    ELSE first_response

IdemPost(todo, key) ==
    /\ SeqCreate(todo, key)
    /\ http' = idem_create_todo_endpoint(
                   todos, todo_idempotency_keys, todo, key, idem_now)
    /\ first_response' = FirstResponse(key, http')
    /\ UNCHANGED pagination

IdemGetById(id) ==
    /\ SeqGet(id)
    /\ http' = idem_get_todo_endpoint(todos, id)
    /\ UNCHANGED <<first_response, pagination>>

IdemPut(id, body) ==
    /\ SeqUpdate(id, body)
    /\ http' = idem_update_todo_endpoint(todos, id, body)
    /\ UNCHANGED <<first_response, pagination>>

IdemDelete(id) ==
    /\ SeqDelete(id)
    /\ http' = idem_delete_todo_endpoint(todos, id)
    /\ UNCHANGED <<first_response, pagination>>

IdemApiNext ==
    \/ \E todo \in IdemTodoCreate, key \in {None, Some("k1")} :
            IdemPost(todo, key)
    \/ \E id \in Ids : IdemGetById(id)
    \/ \E id \in Ids, body \in IdemTodoUpdate : IdemPut(id, body)
    \/ \E id \in Ids : IdemDelete(id)
    \/ SeqTick /\ UNCHANGED api_vars

\* Create and update requests with every body the request schemas accept.
AcceptedNext ==
    \/ \E todo \in AcceptedTodoCreate : IdemPost(todo, None)
    \/ \E id \in Ids, body \in AcceptedTodoUpdate : IdemPut(id, body)

(***************************************************************************)
(* The HTTP endpoints of the soft-delete iteration                         *)
(* (app/api/v1/endpoints/todo.py), one request at a time.                  *)
(***************************************************************************)
\* Query(ge=1) for page, Query(ge=1, le=20) for limit, and q: absent or a
\* keyword of 1 to 100 characters.
Pages == 1..MaxPage
Limits == 1..MaxLimit
Queries == {None, Some("A"), Some("b")}

\* POST /todos/ (status_code=201)
create_todo_endpoint(T, seq, todo, now) ==
    item_response("create", create_todo(T, seq, todo, now).ret[1], 201)

\* The parameters of list_todos besides the session.
list_todos_parameters == {"include_deleted"}

\* A call of list_todos with keyword arguments: a keyword that names no
\* parameter of the function raises TypeError before its body runs.
call_list_todos(T, keywords) ==
    IF keywords \subseteq list_todos_parameters
    THEN [raised |-> FALSE, ret |-> list_todos(T, FALSE)]
    ELSE [raised |-> TRUE, ret |-> {}]

\* Lines 53-63: the pagination metadata of a page.  math.ceil(total / limit)
\* is the quotient rounded up.
\* total_pages with the quotient rounded down (total // limit).
total_pages_floor(total, limit) ==
    IF total # 0 THEN total \div limit ELSE 0

total_pages_of(total, limit) ==
    IF total # 0 THEN (total + limit - 1) \div limit ELSE 0

has_next_of(page, total_pages) == page < total_pages

\* has_previous that counts the first page as having a previous one.
has_previous_from_first(page) == page >= 1

has_previous_of(page) == page > 1

PaginationInfo(page, limit, total) ==
    [page |-> page,
     limit |-> limit,
     total_items |-> total,
     total_pages |-> total_pages_of(total, limit),
     has_next |-> has_next_of(page, total_pages_of(total, limit)),
     has_previous |-> has_previous_of(page)]

\* GET /todos/: `todos, total = list_todos(session, page=page, limit=limit,
\* q=q)`.  The call raises TypeError (500).  Had it returned, the list of rows
\* is not a (todos, total) pair: the unpacking, or the division of a row by
\* limit, raises as well.
list_todos_endpoint(T, page, limit, q) ==
    LET r == call_list_todos(T, {"page", "limit", "q"})
    IN  IF r.raised
        THEN Response("list", 0, "raised", 500, None)
        ELSE Response("list", 0, "raised", 500, None)

\* GET /todos/completed
get_completed_todo_endpoint(T) ==
    Response("completed", 0, "ok", 200,
             Some({TodoResponse(t) : t \in get_all_completed_todo(T)}))

\* GET /todos/{todo_id}
get_todo_endpoint(T, todo_id) ==
    LET todo_item == get_todo(T, todo_id)
    IN  IF todo_item = None
        THEN Response("get", todo_id, "absent", 404, None)
        ELSE item_response("get", todo_item[1], 200)

\* PUT /todos/{todo_id}
update_todo_endpoint(T, todo_id, body) ==
    LET r == update_todo(T, todo_id, body)
    IN  IF r.raised
        THEN Response("update", todo_id, "raised", 500, None)
        ELSE IF r.ret = None
             THEN Response("update", todo_id, "absent", 404, None)
             ELSE item_response("update", r.ret[1], 200)

\* DELETE /todos/{todo_id} (status_code=204)
soft_delete_todo_endpoint(T, todo_id, now) ==
    LET result == soft_delete_todo(T, todo_id, now).ret
    IN  IF ~result
        THEN Response("delete", todo_id, "absent", 404, None)
        ELSE Response("delete", todo_id, "ok", 204, None)

\* DELETE /todos/{todo_id}/hard (status_code=204)
hard_delete_todo_endpoint(T, todo_id) ==
    LET result == delete_todo(T, todo_id).ret
    IN  IF ~result
        THEN Response("hard_delete", todo_id, "absent", 404, None)
        ELSE Response("hard_delete", todo_id, "ok", 204, None)

\* POST /todos/{todo_id}/restore
restore_todo_endpoint(T, todo_id) ==
    LET todo_item == restore_todo(T, todo_id).ret
    IN  IF todo_item = None
        THEN Response("restore", todo_id, "absent", 404, None)
        ELSE item_response("restore", todo_item[1], 200)

TodoPost(todo) ==
    /\ AppCreate(todo)
    /\ http' = create_todo_endpoint(app_todos, app_id_seq, todo, app_now)
    /\ UNCHANGED <<first_response, pagination>>

\* The request changes nothing: no statement reaches the database.
TodoList(page, limit, q) ==
    /\ http' = list_todos_endpoint(app_todos, page, limit, q)
    /\ UNCHANGED <<app_vars, idem_vars, first_response, pagination>>

TodoCompleted ==
    /\ AppCompleted
    /\ http' = get_completed_todo_endpoint(app_todos)
    /\ UNCHANGED <<first_response, pagination>>

TodoGetById(id) ==
    /\ AppGet(id)
    /\ http' = get_todo_endpoint(app_todos, id)
    /\ UNCHANGED <<first_response, pagination>>

TodoPut(id, body) ==
    /\ AppUpdate(id, body)
    /\ http' = update_todo_endpoint(app_todos, id, body)
    /\ UNCHANGED <<first_response, pagination>>

TodoSoftDelete(id) ==
    /\ AppSoftDelete(id)
    /\ http' = soft_delete_todo_endpoint(app_todos, id, app_now)
    /\ UNCHANGED <<first_response, pagination>>

TodoHardDelete(id) ==
    /\ AppHardDelete(id)
    /\ http' = hard_delete_todo_endpoint(app_todos, id)
    /\ UNCHANGED <<first_response, pagination>>

TodoRestore(id) ==
    /\ AppRestore(id)
    /\ http' = restore_todo_endpoint(app_todos, id)
    /\ UNCHANGED <<first_response, pagination>>

TodoApiNext ==
    \/ \E todo \in TodoCreate : TodoPost(todo)
    \/ \E page \in Pages, limit \in Limits, q \in Queries :
            TodoList(page, limit, q)
    \/ TodoCompleted
    \/ \E id \in Ids : TodoGetById(id)
    \/ \E id \in Ids, body \in TodoUpdate : TodoPut(id, body)
    \/ \E id \in Ids : TodoSoftDelete(id)
    \/ \E id \in Ids : TodoHardDelete(id)
    \/ \E id \in Ids : TodoRestore(id)
    \/ AppTick /\ UNCHANGED api_vars

\* The pagination arithmetic of the list endpoint applied to a page, a limit
\* and a count of matching items.
Paginate(page, limit, total) ==
    /\ pagination' = Some(PaginationInfo(page, limit, total))
    /\ UNCHANGED <<app_vars, idem_vars, http, first_response>>

PaginateNext ==
    \E page \in Pages, limit \in Limits, total \in 0..MaxTotal :
        Paginate(page, limit, total)

\* --------------------------------------------------------- specifications
ApiInit ==
    /\ http = [endpoint |-> "none", todo_id |-> 0, result |-> "none",
               status_code |-> 0, body |-> None]
    /\ first_response = [k \in Keys |-> None]
    /\ pagination = None

Init == AppInit /\ IdemInit /\ ApiInit

\* The soft-delete iteration, one call at a time.
SpecSD == Init /\ [][AppNext]_vars

\* The idempotency iteration, one call at a time.
SpecSeq == Init /\ [][SeqNext]_vars

\* The idempotency iteration with concurrent create requests.
Spec == Init /\ [][ConcNext]_vars

\* The HTTP endpoints of the idempotency iteration, one request at a time.
SpecIdemApi == Init /\ [][IdemApiNext]_vars

\* The create and update requests of the idempotency iteration with every
\* accepted body.
SpecAccepted == Init /\ [][AcceptedNext]_vars

\* The HTTP endpoints of the soft-delete iteration, one request at a time.
SpecTodoApi == Init /\ [][TodoApiNext]_vars

\* The pagination arithmetic on its own.
SpecPage == Init /\ [][PaginateNext]_vars

(***************************************************************************)
(* Claims about the idempotency iteration.                                 *)
(***************************************************************************)
RecordsOf(K, k) == {r \in K : r.idempotency_key = k}
ItemsCreatedWith(T, cw, k) == {t \in T : cw[t.id] = Some(k)}

\* C1: when a create with a non-empty key returned a new item and the same
\* create (same key, same input) is the next call, the second call returns the
\* same item id with is_new = False, and the store then holds exactly one item
\* created with the key and exactly one idempotency record for it.
C1_ReplayReturnsSameItem ==
    [][\A todo \in IdemTodoCreate, k \in Keys :
        (/\ ret.op = "create"
         /\ ret.key = Some(k)
         /\ ret.todo = Some(todo)
         /\ ret.status = "ok"
         /\ ret.is_new
         /\ SeqCreate(todo, Some(k)))
        => /\ ret'.status = "ok"
           /\ ~ret'.is_new
           /\ ret'.id = ret.id
           /\ \E t \in ret'.rows : t.id = ret.id
           /\ Cardinality(ItemsCreatedWith(todos', created_with', k)) = 1
           /\ Cardinality(RecordsOf(todo_idempotency_keys', k)) = 1
           /\ \A r \in RecordsOf(todo_idempotency_keys', k) : r.todo_id = ret.id
      ]_vars

C1_Witness ==
    /\ ret.op = "create"
    /\ ret.key = Some("k1")
    /\ ret.status = "ok"
    /\ ~ret.is_new
    /\ \E t \in todos :
        /\ t.id = ret.id
        /\ t.title = Some(ret.todo[1].title)
        /\ created_with[t.id] = Some("k1")
    /\ Cardinality(todos) = 2

\* C2: a key never has more than one idempotency record, and a create whose
\* key already has a record returns the recorded item with is_new = False and
\* adds no row, also when the recorded item has been deleted.
C2_ReplayNeverCreates ==
    [][\A todo \in IdemTodoCreate, k \in Keys :
        (/\ RecordsOf(todo_idempotency_keys, k) # {}
         /\ SeqCreate(todo, Some(k)))
        => /\ todos' = todos
           /\ todo_idempotency_keys' = todo_idempotency_keys
           /\ Cardinality(RecordsOf(todo_idempotency_keys', k)) <= 1
           /\ ret'.status = "ok"
           /\ ~ret'.is_new
           /\ \A r \in RecordsOf(todo_idempotency_keys, k) : ret'.id = r.todo_id
      ]_vars

\* C3: when two concurrent creates with the same key have both ended, the
\* store holds at most one idempotency record for the key and at most one item
\* created with it.
C3_RaceLeavesNoDuplicates ==
    \A r1, r2 \in Reqs :
        (/\ r1 # r2
         /\ req[r1].pc = "done"
         /\ req[r2].pc = "done"
         /\ truthy(req[r1].key)
         /\ req[r1].key = req[r2].key)
        => /\ Cardinality(RecordsOf(todo_idempotency_keys, req[r1].key[1])) <= 1
           /\ Cardinality(ItemsCreatedWith(todos, created_with,
                                           req[r1].key[1])) <= 1

\* C4: a create whose insert of the idempotency record hit the unique
\* constraint ends as a replay: it returns the item the key's record names,
\* with is_new = False, and not an error.
C4_ConflictResolvesToReplay ==
    \A r \in Reqs :
        req[r].conflict
        => /\ req[r].status = "ok"
           /\ ~req[r].is_new
           /\ \E rec \in RecordsOf(todo_idempotency_keys, req[r].key[1]) :
                req[r].ret_id = rec.todo_id

\* C5: in every committed state an item created with a key has the key's
\* idempotency record, and every idempotency record names an existing item.
C5_ItemAndRecordAtomic ==
    /\ \A t \in todos :
        created_with[t.id] # None
        => \E rec \in RecordsOf(todo_idempotency_keys, created_with[t.id][1]) :
                rec.todo_id = t.id
    /\ \A rec \in todo_idempotency_keys : \E t \in todos : t.id = rec.todo_id

(***************************************************************************)
(* Claims about the soft-delete iteration, checked under SpecSD.           *)
(***************************************************************************)
AppRow(id) == session_get(app_todos, id)
AppActive(id) == get_todo(app_todos, id) # None
AppSoftDeleted(id) == AppRow(id) # None /\ AppRow(id)[1].deleted_at # None

\* C6: a soft delete of an active item makes get_todo return None for its id,
\* and a restore of it makes get_todo return the item as it was before the soft
\* delete: same id, title, description, completion flag and creation timestamp,
\* and a NULL deletion timestamp.
C6_SoftDeleteRestoreRoundTrip ==
    [][\A id \in Ids :
        /\ (AppActive(id) /\ AppSoftDelete(id))
               => /\ app_ret'.status = "ok"
                  /\ get_todo(app_todos', id) = None
        /\ (AppSoftDeleted(id) /\ AppRestore(id))
               => /\ app_ret'.status = "ok"
                  /\ get_todo(app_todos', id) = app_orig[id]
                  /\ app_orig[id] # None
                  /\ app_orig[id][1].deleted_at = None
                  /\ app_ret'.rows = {app_orig[id][1]}]_vars

C6_Witness ==
    /\ app_ret.op = "restore"
    /\ app_ret.status = "ok"
    /\ \E t \in app_ret.rows :
        /\ t.title = Some("b")
        /\ t.is_completed = Some(TRUE)
        /\ t.created_at < app_now
        /\ get_todo(app_todos, app_ret.id) = Some(t)

\* C7: an item whose deletion timestamp is not NULL is returned by none of
\* get_todo, list_todos (include_deleted = False) and get_all_completed_todo,
\* and update_todo on it returns None and leaves the table as it is.
C7_SoftDeletedExcluded ==
    /\ \A t \in app_todos :
        t.deleted_at # None =>
            /\ get_todo(app_todos, t.id) = None
            /\ t \notin list_todos(app_todos, FALSE)
            /\ t \notin get_all_completed_todo(app_todos)
            /\ \A body \in TodoUpdate :
                update_todo(app_todos, t.id, body)
                    = [todos |-> app_todos, ret |-> None, raised |-> FALSE]
    /\ app_ret.op \in {"get", "list", "completed", "update"}
            => \A t \in app_ret.rows : t.deleted_at = None
    /\ (app_ret.op = "update" /\ AppSoftDeleted(app_ret.id))
            => app_ret.status = "not_found"

C7_Witness ==
    /\ app_ret.op = "update"
    /\ app_ret.status = "not_found"
    /\ \E t \in app_todos :
        /\ t.id = app_ret.id
        /\ t.deleted_at # None
        /\ t.is_completed = Some(TRUE)

C9_UpdateChangesExactlyThePresentFields ==
    [][\A id \in Ids, body \in TodoUpdate :
        (AppActive(id) /\ AppUpdate(id, body)) =>
            LET old == AppRow(id)[1]
                new == session_get(app_todos', id)
            IN  /\ app_ret'.status = "ok"
                /\ new # None
                /\ new[1].title =
                       (IF body.title = None THEN old.title ELSE body.title[1])
                /\ new[1].description =
                       (IF body.description = None THEN old.description
                        ELSE body.description[1])
                /\ new[1].is_completed =
                       (IF body.is_completed = None THEN old.is_completed
                        ELSE body.is_completed[1])
                /\ new[1].id = old.id
                /\ new[1].created_at = old.created_at
                /\ new[1].deleted_at = old.deleted_at
                /\ app_todos' \ {new[1]} = app_todos \ {old}]_vars

\* C10: soft_delete_todo signals not-found exactly when the id is absent or the
\* item is already soft-deleted, restore_todo exactly when the id is absent or
\* the item is active, and a call that signals not-found leaves the table as it
\* is (a second soft delete keeps the first deletion timestamp).
C10_NotFoundLeavesStore ==
    [][\A id \in Ids :
        /\ AppSoftDelete(id) =>
            /\ (app_ret'.status = "not_found") <=> ~AppActive(id)
            /\ app_ret'.status = "not_found" => app_todos' = app_todos
        /\ AppRestore(id) =>
            /\ (app_ret'.status = "not_found") <=> ~AppSoftDeleted(id)
            /\ app_ret'.status = "not_found" => app_todos' = app_todos]_vars

C10_Witness ==
    /\ app_ret.op = "soft_delete"
    /\ app_ret.status = "not_found"
    /\ app_now = 1
    /\ \E t \in app_todos : t.id = app_ret.id /\ t.deleted_at = Some(0)

(***************************************************************************)
(* Claims about the HTTP layer.                                            *)
(***************************************************************************)
\* C11: the response of an endpoint that takes an item id is 404 whenever the
\* data-access call signalled absence (None or False), and it carries a
\* success status (200 or 204) only when the data-access call succeeded.
C11_AbsenceIs404 ==
    http.endpoint \in {"get", "update", "delete", "hard_delete", "restore"} =>
        /\ http.result = "absent" => http.status_code = 404
        /\ http.status_code \in {200, 204} => http.result = "ok"

\* C12: for every page >= 1, limit in 1..20 and count of matching items,
\* total_pages is the least number of pages of limit items that hold them all
\* (the quotient rounded up; 0 for no items), has_next is page < total_pages
\* and has_previous is page > 1; 25 items, limit 10, page 3 give 3 pages, no
\* next page and a previous one.
C12_PaginationMetadata ==
    pagination # None =>
        LET p == pagination[1]
        IN  /\ p.page >= 1 /\ p.limit \in 1..20 /\ p.total_items >= 0
            /\ p.total_items = 0 => p.total_pages = 0
            /\ p.total_items > 0 =>
                    /\ p.total_pages * p.limit >= p.total_items
                    /\ (p.total_pages - 1) * p.limit < p.total_items
            /\ p.has_next <=> p.page < p.total_pages
            /\ p.has_previous <=> p.page > 1
            /\ (p.total_items = 25 /\ p.limit = 10 /\ p.page = 3) =>
                    p.total_pages = 3 /\ ~p.has_next /\ p.has_previous

C12_Witness ==
    pagination = Some([page |-> 3, limit |-> 10, total_items |-> 25,
                       total_pages |-> 3, has_next |-> FALSE,
                       has_previous |-> TRUE])

\* C13 as claimed: with no matching item the metadata is total_pages = 0,
\* has_next = false and has_previous = false, for every page and limit.
C13_EmptyHasNoPreviousOnAnyPage ==
    (pagination # None /\ pagination[1].total_items = 0) =>
        /\ pagination[1].total_pages = 0
        /\ ~pagination[1].has_next
        /\ ~pagination[1].has_previous

\* C13, amended: with no matching item the metadata is total_pages = 0 and
\* has_next = false for every page and limit, and has_previous is false on
\* page 1 only: a later page of an empty result has a previous page.
C13_EmptyResultMetadata ==
    (pagination # None /\ pagination[1].total_items = 0) =>
        /\ pagination[1].total_pages = 0
        /\ ~pagination[1].has_next
        /\ pagination[1].page = 1 => ~pagination[1].has_previous
        /\ pagination[1].page > 1 => pagination[1].has_previous

C13_Witness ==
    /\ pagination # None
    /\ pagination[1].total_items = 0
    /\ pagination[1].page = 1
    /\ pagination[1].total_pages = 0
    /\ ~pagination[1].has_next
    /\ ~pagination[1].has_previous

\* The titles and keywords of the model are one character long: a title
\* contains a keyword, letter case aside, when their lower-case forms agree.
lower(str) ==
    CASE str = "A" -> "a"
      [] str = "B" -> "b"
      [] OTHER -> str

title_contains(title, q) == title # None /\ lower(title[1]) = lower(q)

\* The active items that match q, in creation order (the order of their ids).
Matching(T, q) ==
    {t \in T : t.deleted_at = None /\ (q = None \/ title_contains(t.title, q[1]))}

InCreationOrder(S) ==
    CHOOSE seq \in [1..Cardinality(S) -> S] :
        \A i, j \in 1..Cardinality(S) : i < j => seq[i].id < seq[j].id

\* The items at positions (page-1)*limit+1 .. page*limit of seq.
PageOf(seq, page, limit) ==
    LET first == (page - 1) * limit + 1
        last == IF page * limit < Len(seq) THEN page * limit ELSE Len(seq)
    IN  [i \in 1..(IF last >= first THEN last - first + 1 ELSE 0) |->
            seq[first + i - 1]]

\* C14: GET /todos/ with (page, limit, q) answers 200 with the slice at
\* positions (page-1)*limit+1 .. page*limit of the active items whose title
\* contains q (all active items without q) in creation order, and with
\* total_items the number of all those items: the data-access function the
\* handler calls takes (page, limit, q) and returns that (items, total) pair.
C14_ListReturnsThePage ==
    [][\A page \in Pages, limit \in Limits, q \in Queries :
          TodoList(page, limit, q) =>
              LET matching == InCreationOrder(Matching(app_todos, q))
                  items == PageOf(matching, page, limit)
              IN  /\ http'.status_code = 200
                  /\ http'.body =
                        Some([data |-> [i \in 1..Len(items) |->
                                           TodoResponse(items[i])],
                              pagination |->
                                  PaginationInfo(page, limit, Len(matching))])
                  /\ Len(items) <= limit]_vars

\* C15: a create request that carries an idempotency key already used by an
\* earlier create request gets the status (201) and the body of the first
\* response to that key, whatever requests were served in between.
C15_ReplayReturnsOriginalResponse ==
    [][\A todo \in IdemTodoCreate, key \in KeyHeaders :
          (/\ IdemPost(todo, key)
           /\ truthy(key)
           /\ first_response[key[1]] # None) =>
              /\ http'.status_code = 201
              /\ http'.status_code = first_response[key[1]][1].status_code
              /\ http'.body = first_response[key[1]][1].body]_vars

\* C16: after any create and update requests whose bodies the request schemas
\* accept, every row of todos has a title that is not NULL and not empty, and
\* a completion flag that is a boolean and not NULL.
C16_PersistedFieldsValid ==
    \A t \in todos :
        /\ t.title # None
        /\ t.title[1] # ""
        /\ t.is_completed # None
        /\ t.is_completed[1] \in BOOLEAN

====
